---- MODULE Spec2Model ----
(***************************************************************************)
(* Model of workzone_analyzer.py: the identifier resolver                  *)
(* (extract_app_name_from_viz), the loader (load_workzone_data) and the    *)
(* graph builder (analyze_workzone_export).                                *)
(*                                                                         *)
(* A Python str is modelled as a sequence of one-character strings, so     *)
(* that split / count / startswith / "in" are computed character by        *)
(* character as the interpreter does.  Python's None is the value None     *)
(* below, which is no sequence of characters.                              *)
(***************************************************************************)
EXTENDS Integers, Sequences, FiniteSets, TLC

VARIABLES pc, fs, data, overview, viz_id, app_name

vars == <<pc, fs, data, overview, viz_id, app_name>>

\* ------------------------------------------------------------------------
\* Python values and str methods
\* ------------------------------------------------------------------------

\* Python's None: a one-element tuple whose element is not a character.
None == <<"None">>

\* bool(x) for x a str or None.
Truthy(x) == x # None /\ x # <<>>

\* s.find(c) + 1 for a one-character c: position of the first c, 0 if none.
IndexOf(s, c) ==
    IF \E i \in 1..Len(s) : s[i] = c
    THEN CHOOSE i \in 1..Len(s) : s[i] = c /\ \A j \in 1..(i - 1) : s[j] # c
    ELSE 0

\* s.count(c) for a one-character c.
Count(s, c) == Cardinality({i \in 1..Len(s) : s[i] = c})

\* s.startswith(p)
StartsWith(s, p) == Len(p) <= Len(s) /\ SubSeq(s, 1, Len(p)) = p

\* p in s  (substring test; the empty string is in every string)
Contains(s, p) ==
    \E i \in 0..(Len(s) - Len(p)) : SubSeq(s, i + 1, i + Len(p)) = p

\* s.split(c): all the pieces between occurrences of c (empty pieces kept).
RECURSIVE Split(_, _)
Split(s, c) ==
    LET i == IndexOf(s, c)
    IN  IF i = 0 THEN <<s>>
        ELSE <<SubSeq(s, 1, i - 1)>> \o Split(SubSeq(s, i + 1, Len(s)), c)

\* s.split(c, n): at most n splits, the rest of the string is the last piece.
RECURSIVE SplitMax(_, _, _)
SplitMax(s, c, n) ==
    LET i == IndexOf(s, c)
    IN  IF i = 0 \/ n = 0 THEN <<s>>
        ELSE <<SubSeq(s, 1, i - 1)>> \o SplitMax(SubSeq(s, i + 1, Len(s)), c, n - 1)

\* ------------------------------------------------------------------------
\* extract_app_name_from_viz
\* ------------------------------------------------------------------------

\* The identifiers of the function's comment block.
VizApprouter == <<"s", "a", "a", "s", "_", "a", "p", "p", "r", "o", "u", "t", "e", "r", "_", "b", "e", ".", "n", "m", "b", "s", ".", "s", "c", "a", "n", "n", "e", "r", "#", "S", "c", "a", "n", "n", "e", "r", "-", "d", "e", "m", "o">>
VizCustomCard == <<"b", "e", ".", "n", "m", "b", "s", ".", "s", "c", "m", ".", "z", "s", "c", "m", "c", "u", "s", "t", "o", "m", "c", "a", "r", "d", ".", "a", "p", "p", "#", "b", "e", ".", "n", "m", "b", "s", ".", "s", "c", "m", ".", "z", "s", "c", "m", "c", "u", "s", "t", "o", "m", "c", "a", "r", "d", ".", "v", "i", "z">>
VizGuid == <<"3", "0", "3", "d", "0", "e", "0", "1", "-", "1", "7", "d", "3", "-", "4", "8", "5", "0", "-", "a", "8", "f", "b", "-", "0", "3", "2", "a", "6", "3", "5", "b", "3", "3", "4", "4", "#", "D", "e", "f", "a", "u", "l", "t", "-", "V", "i", "z", "I", "d">>
VizGbx == <<"g", "b", "x", "_", "0", "D", "6", "E", "B", "5", "5", "1", "1", "E", "A", "3", "B", "7", "3", "3", "4", "E", "8", "1", "9", "0", "B", "6", "B", "B", "7", "8", "D", "F", "5", "D", "#", "0", "0", "8", "Y", "1", "7", "F", "6", "A", "D", "9", "D", "N", "5", "4", "1", "4", "L", "T", "U", "O", "A", "P", "R", "X">>

\* 'gbx_'
GbxPrefix == <<"g", "b", "x", "_">>

\* ['app', 'viz', 'be', 'nmbs', 'scm', 'btc']
Stoplist == { <<"a", "p", "p">>, <<"v", "i", "z">>, <<"b", "e">>,
              <<"n", "m", "b", "s">>, <<"s", "c", "m">>, <<"b", "t", "c">> }

\* Number of '-' from which the part before '#' counts as a GUID.
GuidDashes == 4

\* A 'z' segment is taken when it is longer than this.
ZMinLen == 3

\* Variant: the piece after the last '#' (split("#")[-1]) instead of the first.
AppPartLast(id) == Split(id, "#")[Len(Split(id, "#"))]

\* app_part = viz_id.split("#")[0]
AppPart(id) == Split(id, "#")[1]

\* app_part.count('-') >= 4
IsGuid(app_part) == Count(app_part, "-") >= GuidDashes

\* app_part.startswith('gbx_')
IsGbx(app_part) == StartsWith(app_part, GbxPrefix)

\* Variant: len(part) >= 3, the length test off by one.
IsZPartOffByOne(part) == StartsWith(part, <<"z">>) /\ Len(part) >= ZMinLen

\* part.startswith('z') and len(part) > 3
IsZPart(part) == StartsWith(part, <<"z">>) /\ Len(part) > ZMinLen

\* p not in ['app', 'viz', 'be', 'nmbs', 'scm', 'btc']
IsMeaningful(p) == p \notin Stoplist

\* meaningful = [p for p in parts if p not in [...]]
RECURSIVE Meaningful(_)
Meaningful(parts) ==
    IF parts = <<>> THEN <<>>
    ELSE (IF IsMeaningful(Head(parts)) THEN <<Head(parts)>> ELSE <<>>)
         \o Meaningful(Tail(parts))

\* The underscore rule: parts = app_part.split('_', 1); parts[1] if there is one.
\* <<TRUE, value>> when the rule returns, <<FALSE, _>> when it falls through.
UnderscoreRule(app_part) ==
    IF Contains(app_part, <<"_">>)
    THEN LET parts == SplitMax(app_part, "_", 1)
         IN  IF Len(parts) > 1 THEN <<TRUE, parts[2]>> ELSE <<FALSE, app_part>>
    ELSE <<FALSE, app_part>>

\* The dot rule: the first 'z' part, else the last meaningful part.
DotRule(app_part) ==
    IF Contains(app_part, <<".">>)
    THEN LET parts == Split(app_part, ".")
             meaningful == Meaningful(parts)
         IN  IF \E i \in 1..Len(parts) : IsZPart(parts[i])
             THEN <<TRUE, parts[CHOOSE i \in 1..Len(parts) :
                              /\ IsZPart(parts[i])
                              /\ \A j \in 1..(i - 1) : ~IsZPart(parts[j])]>>
             ELSE IF meaningful # <<>>
                  THEN <<TRUE, meaningful[Len(meaningful)]>>
                  ELSE <<FALSE, app_part>>
    ELSE <<FALSE, app_part>>

\* Variant: the underscore rule tried before the GUID and 'gbx_' tests.
extract_underscore_first(id) ==
    LET app_part == AppPart(id)
    IN  IF UnderscoreRule(app_part)[1] THEN UnderscoreRule(app_part)[2]
        ELSE IF IsGuid(app_part) THEN app_part
        ELSE IF IsGbx(app_part) THEN app_part
        ELSE IF DotRule(app_part)[1] THEN DotRule(app_part)[2]
        ELSE app_part

extract_app_name_from_viz(id) ==
    LET app_part == AppPart(id)
    IN  IF IsGuid(app_part) THEN app_part
        ELSE IF IsGbx(app_part) THEN app_part
        ELSE IF UnderscoreRule(app_part)[1] THEN UnderscoreRule(app_part)[2]
        ELSE IF DotRule(app_part)[1] THEN DotRule(app_part)[2]
        ELSE app_part

\* ------------------------------------------------------------------------
\* The identifiers the resolver is run on
\* ------------------------------------------------------------------------

\* Longest identifier, counted in pieces.
MaxPieces == 4

\* Building blocks of identifiers: each separator the rules look at, a run of
\* three '-' (one short of a GUID), the 'gbx' of the reserved prefix, a 'z'
\* segment at the length limit and one above it, a stoplisted segment and a
\* segment that is neither.
Pieces == { <<"-">>, <<"-", "-", "-">>, <<"_">>, <<".">>, <<"#">>,
            <<"g", "b", "x">>, <<"z", "a", "b">>, <<"z", "a", "b", "c">>,
            <<"b", "e">>, <<"a">> }

RECURSIVE Identifiers(_)
Identifiers(n) ==
    IF n = 0 THEN {<<>>}
    ELSE {<<>>} \cup {p \o s : p \in Pieces, s \in Identifiers(n - 1)}

VizIdInputs ==
    Identifiers(MaxPieces) \cup {VizApprouter, VizCustomCard, VizGuid, VizGbx}

\* ------------------------------------------------------------------------
\* Resolver run: one call of extract_app_name_from_viz
\* ------------------------------------------------------------------------

InitResolver ==
    /\ pc = "call"
    /\ viz_id \in VizIdInputs
    /\ app_name = None
    /\ fs = <<>>
    /\ data = <<>>
    /\ overview = <<>>

Resolve ==
    /\ pc = "call"
    /\ app_name' = extract_app_name_from_viz(viz_id)
    /\ pc' = "returned"
    /\ UNCHANGED <<viz_id, fs, data, overview>>

NextResolver == Resolve

SpecResolver == InitResolver /\ [][NextResolver]_vars

\* ------------------------------------------------------------------------
\* load_workzone_data
\* ------------------------------------------------------------------------

\* The files the loader looks for under base_path, and the key each is
\* stored under.
DataKeys == { "export_metadata", "roles", "business_apps", "spaces",
              "workpages", "space_workpage_relations" }

FileOf(key) ==
    CASE key = "export_metadata" -> "export_data"
      [] key = "roles" -> "sub_account/SUB_ACCOUNT/role/role1.json"
      [] key = "business_apps" -> "sub_account/SUB_ACCOUNT/businessapp/businessapp1.json"
      [] key = "spaces" -> "agents/cep-runtime-agent/content/1_DataFile_SP.json"
      [] key = "workpages" -> "agents/cep-runtime-agent/content/1_DataFile_WPV.json"
      [] key = "space_workpage_relations" -> "agents/cep-runtime-agent/content/1_DataFile_SP-WP.json"

\* os.path.exists(path), the file system being a function from the paths
\* that exist to their parsed JSON content.
PathExists(files, path) == path \in DOMAIN files

\* data = {}; for each file that exists: data[key] = json.load(f)
load_workzone_data(files) ==
    [key \in {k \in DataKeys : PathExists(files, FileOf(k))} |-> files[FileOf(key)]]

\* ------------------------------------------------------------------------
\* analyze_workzone_export
\* ------------------------------------------------------------------------

\* Variant: the membership test left out.
InDataUnguarded(key, d) == TRUE

\* 'key' in data
InData(key, d) == key \in DOMAIN d

\* data[key]
Subscript(d, key) == d[key]

\* The collections the function subscripts: every data['key'] stands behind
\* the test 'key' in data.
Subscripted(d) == {k \in DataKeys : InData(k, d)}

\* A subscript of a missing key is reached: the call raises KeyError.
Raises(d) == \E k \in Subscripted(d) : k \notin DOMAIN d

\* Variant: the language test left out.
IsAnySpace(space) == space.language \in {"master", "en"}

\* space.get('language') == 'master'
IsCanonicalSpace(space) == space.language = "master"

\* wp.get('language') == 'en'
IsCanonicalPage(wp) == wp.language = "en"

\* overview["export_info"]: {} unless the metadata is there.
ExportInfo(d) ==
    IF InData("export_metadata", d)
    THEN LET meta == Subscript(d, "export_metadata")
         IN  <<[date |-> meta.time, exported_by |-> meta.username]>>
    ELSE <<>>

\* overview["spaces"]: one node per master-language record, in file order.
SpaceNodes(d) ==
    IF InData("spaces", d)
    THEN LET canonical == SelectSeq(Subscript(d, "spaces"), IsCanonicalSpace)
         IN  [i \in 1..Len(canonical) |->
                 [id |-> canonical[i].id, title |-> canonical[i].title]]
    ELSE <<>>

\* The inner loop over data['spaces']: the title of the first master-language
\* record with this id, None when there is none.
SpaceTitle(d, space_id) ==
    IF InData("spaces", d)
    THEN LET spaces == Subscript(d, "spaces")
             hits == {i \in 1..Len(spaces) :
                        spaces[i].id = space_id /\ IsCanonicalSpace(spaces[i])}
         IN  IF hits = {} THEN None
             ELSE spaces[CHOOSE i \in hits : \A j \in hits : i <= j].title
    ELSE None

\* page_to_space_map after the loop over the relations, as the list it holds
\* for one page id (the empty list for a key it does not hold).
RECURSIVE PageSpacesOf(_, _, _)
PageSpacesOf(d, relations, page_id) ==
    IF relations = <<>> THEN <<>>
    ELSE LET relation == Head(relations)
             space_title == SpaceTitle(d, relation.spaceId)
         IN  (IF relation.workPageId = page_id /\ Truthy(space_title)
              THEN <<space_title>> ELSE <<>>)
             \o PageSpacesOf(d, Tail(relations), page_id)

page_to_space_map(d, page_id) ==
    IF InData("space_workpage_relations", d)
    THEN PageSpacesOf(d, Subscript(d, "space_workpage_relations"), page_id)
    ELSE <<>>

\* xs with x appended unless it is there already.
AppendNew(xs, x) ==
    IF \E i \in 1..Len(xs) : xs[i] = x THEN xs ELSE Append(xs, x)

RECURSIVE AppendAllNew(_, _)
AppendAllNew(xs, ys) ==
    IF ys = <<>> THEN xs ELSE AppendAllNew(AppendNew(xs, Head(ys)), Tail(ys))

\* The title of a business app: its own, else derived from the id it extends,
\* else derived from its own id.
AppTitle(app) ==
    IF Truthy(app.title) THEN app.title
    ELSE IF app.base # <<>> THEN extract_app_name_from_viz(app.base[1])
    ELSE extract_app_name_from_viz(app.id)

\* app_details[app_id] = {...}: a dict keeps the position of a key it has.
RECURSIVE AppDetails(_)
AppDetails(apps) ==
    IF apps = <<>> THEN <<>>
    ELSE LET app == apps[Len(apps)]
             before == AppDetails(SubSeq(apps, 1, Len(apps) - 1))
             entry == [id |-> app.id, title |-> AppTitle(app),
                       type |-> IF app.base # <<>> THEN "extended" ELSE "custom",
                       pages |-> <<>>, spaces |-> <<>>]
         IN  IF \E i \in 1..Len(before) : before[i].id = app.id
             THEN [i \in 1..Len(before) |->
                      IF before[i].id = app.id THEN entry ELSE before[i]]
             ELSE Append(before, entry)

InitialAppDetails(d) ==
    IF InData("business_apps", d) THEN AppDetails(Subscript(d, "business_apps"))
    ELSE <<>>

\* The app entries of one page: one per visualization id, in order.
PageApps(viz_ids) ==
    [i \in 1..Len(viz_ids) |->
        [viz_id |-> viz_ids[i], app_name |-> extract_app_name_from_viz(viz_ids[i])]]

\* page_info for one workpage record.
PageInfo(d, wp) ==
    [id |-> wp.id, title |-> wp.title,
     spaces |-> page_to_space_map(d, wp.id),
     apps |-> PageApps(wp.workPageVizsId)]

\* overview["pages"]: one node per en-language record, in file order.
PageNodes(d) ==
    IF InData("workpages", d)
    THEN LET canonical == SelectSeq(Subscript(d, "workpages"), IsCanonicalPage)
         IN  [i \in 1..Len(canonical) |-> PageInfo(d, canonical[i])]
    ELSE <<>>

\* app_id in viz_id or viz_id.startswith(app_id)
AppOnViz(app_id, id) == Contains(id, app_id) \/ StartsWith(id, app_id)

\* The update of one app's details for one visualization of one page.
TouchApp(app, page, id) ==
    IF AppOnViz(app.id, id)
    THEN [app EXCEPT !.pages = AppendNew(@, page.title),
                     !.spaces = AppendAllNew(@, page.spaces)]
    ELSE app

\* The loops over the visualizations of one page, then over the pages.
RECURSIVE TouchAppForVizs(_, _, _)
TouchAppForVizs(app, page, apps_on_page) ==
    IF apps_on_page = <<>> THEN app
    ELSE TouchAppForVizs(TouchApp(app, page, Head(apps_on_page).viz_id),
                         page, Tail(apps_on_page))

RECURSIVE TouchAppForPages(_, _)
TouchAppForPages(app, pages) ==
    IF pages = <<>> THEN app
    ELSE TouchAppForPages(TouchAppForVizs(app, Head(pages), Head(pages).apps),
                          Tail(pages))

\* overview["apps"] = list(app_details.values())
AppNodes(d, pages) ==
    LET details == InitialAppDetails(d)
    IN  [i \in 1..Len(details) |-> TouchAppForPages(details[i], pages)]

\* viz_id.startswith(provider_id + "_") or provider_id in viz_id
ProviderMatches(provider_id, id) ==
    StartsWith(id, provider_id \o <<"_">>) \/ Contains(id, provider_id)

\* Variant: "if provider_id is not None:", which lets the empty string in.
HasProviderNotNone(provider_id) == provider_id # None

\* if provider_id:
HasProvider(provider_id) == Truthy(provider_id)

\* The matches of one page, appended to the role's lists.
\* acc = <<related_pages, related_visualizations>>
RECURSIVE MatchVizs(_, _, _, _)
MatchVizs(provider_id, page, apps_on_page, acc) ==
    IF apps_on_page = <<>> THEN acc
    ELSE LET app == Head(apps_on_page)
         IN  MatchVizs(provider_id, page, Tail(apps_on_page),
                IF ProviderMatches(provider_id, app.viz_id)
                THEN << AppendNew(acc[1], page.title),
                        Append(acc[2], [page |-> page.title, viz_id |-> app.viz_id,
                                        app_name |-> app.app_name]) >>
                ELSE acc)

RECURSIVE MatchPages(_, _, _)
MatchPages(provider_id, pages, acc) ==
    IF pages = <<>> THEN acc
    ELSE MatchPages(provider_id, Tail(pages),
                    MatchVizs(provider_id, Head(pages), Head(pages).apps, acc))

NoteFound == "Gevonden via provider matching in"
NoteNone == "Geen visualizations gevonden met deze provider"

RoleNode(role, pages) ==
    LET related == IF HasProvider(role.providerId)
                   THEN MatchPages(role.providerId, pages, << <<>>, <<>> >>)
                   ELSE << <<>>, <<>> >>
    IN  [id |-> role.id, provider_id |-> role.providerId,
         extends |-> IF role.base # <<>> THEN role.base[1] ELSE None,
         related_pages |-> related[1],
         related_visualizations |-> related[2],
         note |-> IF related[2] # <<>> THEN <<NoteFound, Len(related[2])>>
                  ELSE <<NoteNone>>]

\* overview["roles"]
RoleNodes(d, pages) ==
    IF InData("roles", d)
    THEN LET roles == Subscript(d, "roles")
         IN  [i \in 1..Len(roles) |-> RoleNode(roles[i], pages)]
    ELSE <<>>

RECURSIVE SumApps(_)
SumApps(pages) ==
    IF pages = <<>> THEN 0 ELSE Len(Head(pages).apps) + SumApps(Tail(pages))

Statistics(spaces, pages, apps, roles) ==
    [total_spaces |-> Len(spaces), total_pages |-> Len(pages),
     total_apps |-> Len(apps), total_roles |-> Len(roles),
     total_visualizations |-> SumApps(pages)]

analyze_workzone_export(d) ==
    LET spaces == SpaceNodes(d)
        pages == PageNodes(d)
        apps == AppNodes(d, pages)
        roles == RoleNodes(d, pages)
    IN  [export_info |-> ExportInfo(d),
         spaces |-> spaces,
         pages |-> pages,
         apps |-> apps,
         roles |-> roles,
         statistics |-> Statistics(spaces, pages, apps, roles)]

\* ------------------------------------------------------------------------
\* The exports the pipeline is run on
\* ------------------------------------------------------------------------

\* Size of the largest export: its records (the metadata object is one) plus
\* the visualization references of its workpages.
MaxSize == 4

SpaceId == <<"s", "1">>
PageId1 == <<"p", "1">>
PageId2 == <<"p", "2">>
AppId == <<"a", "_", "x">>
RoleId == <<"r", "1">>
Viz1 == <<"a", "_", "x", "#", "1">>
Viz2 == <<"a", "_", "x", "#", "2">>

\* Space records: the master variant of one space and its en variant, which
\* carries another title.
SpaceRecs ==
    { [id |-> SpaceId, language |-> "master", title |-> <<"A">>],
      [id |-> SpaceId, language |-> "en", title |-> <<"B">>] }

\* Relations: the space with a page that has records and one that has none.
RelationRecs == [spaceId : {SpaceId}, workPageId : {PageId1, PageId2}]

\* Workpage records with k visualization references: en variants under two
\* titles and a master variant.
PageRecs(k) ==
    [id : {PageId1}, language : {"en"}, title : {<<"P">>, <<"Q">>},
     workPageVizsId : [1..k -> {Viz1, Viz2}]]
    \cup
    [id : {PageId1}, language : {"master"}, title : {<<"Q">>},
     workPageVizsId : [1..k -> {Viz1, Viz2}]]

\* Roles: no provider id, an empty one, one that occurs in the visualization
\* ids and one that does not.
RoleRecs ==
    [id : {RoleId}, providerId : {None, <<>>, <<"a">>, <<"b">>}, base : {<<>>}]

\* Business apps: one with a title of its own, one without that extends
\* another app.
AppRecs ==
    { [id |-> AppId, title |-> <<"T">>, base |-> <<>>],
      [id |-> AppId, title |-> None, base |-> <<Viz2>>] }

MetaRecs == { [time |-> <<"t">>, username |-> <<"u">>] }

\* Stands for the content of a file that is not in the export.
Absent == <<[absent |-> TRUE]>>

RECURSIVE SeqsUpTo(_, _)
SeqsUpTo(S, n) ==
    IF n <= 0 THEN {<<>>}
    ELSE {<<>>} \cup {<<x>> \o t : x \in S, t \in SeqsUpTo(S, n - 1)}

\* Lists of workpage records of total size at most n, a record counting for
\* one plus its visualization references.
RECURSIVE PageSeqs(_)
PageSeqs(n) ==
    {<<>>} \cup UNION { {<<r>> \o t : r \in PageRecs(k), t \in PageSeqs(n - 1 - k)} :
                        k \in 0..(n - 1) }

RECURSIVE PagesSize(_)
PagesSize(wps) ==
    IF wps = <<>> THEN 0
    ELSE 1 + Len(Head(wps).workPageVizsId) + PagesSize(Tail(wps))

SizeOf(content) == IF content = Absent THEN 0 ELSE Len(content)

\* The file system that holds the files of the keys in present.
FileSystem(present, contents) ==
    [path \in {FileOf(k) : k \in present} |->
        contents[CHOOSE k \in DataKeys : FileOf(k) = path]]

\* ------------------------------------------------------------------------
\* Pipeline run: main() loads the extracted export and analyzes it
\* ------------------------------------------------------------------------

\* Size of the metadata object and the workpages of an export.
MetaAndPagesSize(has_meta, wps) ==
    (IF has_meta THEN 1 ELSE 0) + (IF wps = Absent THEN 0 ELSE PagesSize(wps))

Init ==
    /\ pc = "extracted"
    /\ \E has_meta \in BOOLEAN, meta \in MetaRecs,
          wps \in {Absent} \cup PageSeqs(MaxSize) :
         LET n1 == MaxSize - MetaAndPagesSize(has_meta, wps)
         IN  \E sps \in {Absent} \cup SeqsUpTo(SpaceRecs, n1) :
             \E rels \in {Absent} \cup SeqsUpTo(RelationRecs, n1 - SizeOf(sps)) :
             \E roles \in {Absent} \cup SeqsUpTo(RoleRecs, n1 - SizeOf(sps) - SizeOf(rels)) :
             \E apps \in {Absent} \cup
                   SeqsUpTo(AppRecs, n1 - SizeOf(sps) - SizeOf(rels) - SizeOf(roles)) :
                LET lists == [k \in DataKeys \ {"export_metadata"} |->
                                CASE k = "roles" -> roles
                                  [] k = "business_apps" -> apps
                                  [] k = "spaces" -> sps
                                  [] k = "workpages" -> wps
                                  [] k = "space_workpage_relations" -> rels]
                IN  /\ n1 >= 0
                    /\ fs = FileSystem(
                        {k \in DOMAIN lists : lists[k] # Absent}
                            \cup (IF has_meta THEN {"export_metadata"} ELSE {}),
                        [k \in DataKeys |->
                            IF k = "export_metadata" THEN meta ELSE lists[k]])
    /\ data = <<>>
    /\ overview = <<>>
    /\ viz_id = <<>>
    /\ app_name = None

\* data = load_workzone_data(extract_dir)
Load ==
    /\ pc = "extracted"
    /\ data' = load_workzone_data(fs)
    /\ pc' = "loaded"
    /\ UNCHANGED <<fs, overview, viz_id, app_name>>

\* overview = analyze_workzone_export(data)
Analyze ==
    /\ pc = "loaded"
    /\ IF Raises(data)
       THEN pc' = "raised" /\ overview' = overview
       ELSE pc' = "done" /\ overview' = analyze_workzone_export(data)
    /\ UNCHANGED <<fs, data, viz_id, app_name>>

Next == Load \/ Analyze

Spec == Init /\ [][Next]_vars

\* ------------------------------------------------------------------------
\* Properties of extract_app_name_from_viz (checked under SpecResolver)
\* ------------------------------------------------------------------------

Chars(s) == {s[i] : i \in 1..Len(s)}

\* The substring of id before its first '#' (all of id when it has none).
PreHash(id) ==
    CHOOSE p \in {SubSeq(id, 1, k) : k \in 0..Len(id)} :
        /\ "#" \notin Chars(p)
        /\ Len(p) = Len(id) \/ id[Len(p) + 1] = "#"

\* The positions that delimit the pieces of s between occurrences of c.
Cuts(s, c) == {0, Len(s) + 1} \cup {i \in 1..Len(s) : s[i] = c}

\* s begins with the four characters g, b, x, _.
HasGbxPrefix(s) ==
    Len(s) >= 4 /\ s[1] = "g" /\ s[2] = "b" /\ s[3] = "x" /\ s[4] = "_"

NumDashes(s) == Cardinality({i \in 1..Len(s) : s[i] = "-"})

LblScanner == <<"b", "e", ".", "n", "m", "b", "s", ".", "s", "c", "a", "n", "n", "e", "r">>
LblCustomCard == <<"z", "s", "c", "m", "c", "u", "s", "t", "o", "m", "c", "a", "r", "d">>
LblGbx == <<"g", "b", "x", "_", "0", "D", "6", "E", "B", "5", "5", "1", "1", "E", "A", "3", "B", "7", "3", "3", "4", "E", "8", "1", "9", "0", "B", "6", "B", "B", "7", "8", "D", "F", "5", "D">>

\* The text after the last '_' of s.
AfterLastUnderscore(s) ==
    CHOOSE t \in {SubSeq(s, k + 1, Len(s)) : k \in 0..Len(s)} :
        /\ "_" \notin Chars(t)
        /\ Len(t) = Len(s) \/ s[Len(s) - Len(t)] = "_"

\* C1 (as stated): "saas_approuter_be.nmbs.scanner#Scanner-demo" resolves to
\* "be.nmbs.scanner"; in general, when the part before '#' is underscore-joined
\* prefix segments followed by a dotted name (fewer than 4 '-', no 'gbx_'
\* prefix, no empty segment), the result is the dotted name with every prefix segment stripped,
\* that is the text after the last '_'.
C1_AllPrefixesStripped ==
    pc = "returned" =>
        /\ viz_id = VizApprouter => app_name = LblScanner
        /\ LET pre == PreHash(viz_id)
           IN  ( /\ NumDashes(pre) < 4
                 /\ ~HasGbxPrefix(pre)
                 /\ "_" \in Chars(pre)
                 /\ "." \in Chars(AfterLastUnderscore(pre))
                 /\ "." \notin Chars(SubSeq(pre, 1, Len(pre) - Len(AfterLastUnderscore(pre))))
                 /\ \A i \in 1..Len(pre) : pre[i] \in {"_", "."} =>
                       /\ 1 < i /\ i < Len(pre)
                       /\ pre[i + 1] \notin {"_", "."} )
               => app_name = AfterLastUnderscore(pre)

\* The underscore rule applies to the part before '#'.
UnderscoreCase(pre) ==
    /\ NumDashes(pre) < 4
    /\ ~HasGbxPrefix(pre)
    /\ "_" \in Chars(pre)

\* The dot rule applies to the part before '#'.
DotCase(pre) ==
    /\ NumDashes(pre) < 4
    /\ ~HasGbxPrefix(pre)
    /\ "_" \notin Chars(pre)
    /\ "." \in Chars(pre)

IsZSegment(seg) == Len(seg) > 3 /\ seg[1] = "z"

Stoplisted(seg) ==
    seg \in { <<"a", "p", "p">>, <<"v", "i", "z">>, <<"b", "e">>,
              <<"n", "m", "b", "s">>, <<"s", "c", "m">>, <<"b", "t", "c">> }

\* The dot-separated segments of pre, in order.
DotSegments(pre) ==
    LET cuts == Cuts(pre, ".")
        n == Cardinality(cuts) - 1
        nth(k) == CHOOSE c \in cuts : Cardinality({d \in cuts : d < c}) = k
    IN  [k \in 1..n |-> SubSeq(pre, nth(k - 1) + 1, nth(k) - 1)]

\* What the dot rule is to return for pre.
DotExpected(pre) ==
    LET segs == DotSegments(pre)
        zs == {k \in 1..Len(segs) : IsZSegment(segs[k])}
        ms == {k \in 1..Len(segs) : ~Stoplisted(segs[k])}
    IN  IF zs # {} THEN segs[CHOOSE k \in zs : \A j \in zs : k <= j]
        ELSE IF ms # {} THEN segs[CHOOSE k \in ms : \A j \in ms : j <= k]
        ELSE pre

\* No rule matches the part before '#'.
NoRuleCase(pre) ==
    /\ NumDashes(pre) < 4
    /\ ~HasGbxPrefix(pre)
    /\ "_" \notin Chars(pre)
    /\ "." \in Chars(pre) =>
          \A k \in 1..Len(DotSegments(pre)) :
              Stoplisted(DotSegments(pre)[k]) /\ ~IsZSegment(DotSegments(pre)[k])

\* C5 (as stated): the resolver never returns an empty string.
C5_NeverEmpty ==
    pc = "returned" => app_name # None /\ app_name # <<>>

\* C5 (amended): the resolver returns a string for every identifier string,
\* a substring of the part before '#'; when no rule matches, the result is
\* the part before '#' unchanged; and the
\* result is empty exactly when the part before '#' is empty, or the
\* underscore rule applies and nothing follows the first '_', or the dot rule
\* applies, no segment is a 'z' segment and the last non-stoplisted segment
\* is empty.
C5_EmptyOnlyWhen ==
    pc = "returned" =>
        LET pre == PreHash(viz_id)
        IN  /\ app_name # None
            /\ \E k \in 0..(Len(pre) - Len(app_name)) :
                  \A i \in 1..Len(app_name) : pre[k + i] = app_name[i]
            /\ NoRuleCase(pre) => app_name = pre
            /\ app_name = <<>> <=>
                  \/ pre = <<>>
                  \/ UnderscoreCase(pre) /\ pre[Len(pre)] = "_"
                       /\ Cardinality({i \in 1..Len(pre) : pre[i] = "_"}) = 1
                  \/ /\ DotCase(pre)
                     /\ \A k \in 1..Len(DotSegments(pre)) : ~IsZSegment(DotSegments(pre)[k])
                     /\ DotExpected(pre) = <<>>

\* C5 witness: a non-empty part before '#' resolved to the empty string by
\* the underscore rule.
C5_Witness ==
    /\ pc = "returned"
    /\ PreHash(viz_id) # <<>>
    /\ UnderscoreCase(PreHash(viz_id))
    /\ app_name = <<>>

\* C6: a part before '#' with at least 4 '-' is returned unchanged whatever
\* '_' or '.' it contains, and so is a part that starts with 'gbx_'.
C6_GuidAndGbxPassthrough ==
    pc = "returned" =>
        LET pre == PreHash(viz_id)
        IN  /\ NumDashes(pre) >= 4 => app_name = pre
            /\ HasGbxPrefix(pre) => app_name = pre
            /\ viz_id = VizGbx => app_name = LblGbx

\* C6 witness: a GUID-shaped part that also contains '_' came back unchanged.
C6_Witness ==
    /\ pc = "returned"
    /\ NumDashes(PreHash(viz_id)) >= 4
    /\ "_" \in Chars(PreHash(viz_id))
    /\ app_name = PreHash(viz_id)

\* C10: when the dot rule applies, the result is the first 'z' segment longer
\* than 3 characters if there is one, otherwise the last segment outside the
\* stoplist, otherwise the whole part before '#'; and
\* "be.nmbs.scm.zscmcustomcard.app#be.nmbs.scm.zscmcustomcard.viz" resolves
\* to "zscmcustomcard".
C10_DotRule ==
    pc = "returned" =>
        /\ DotCase(PreHash(viz_id)) => app_name = DotExpected(PreHash(viz_id))
        /\ viz_id = VizCustomCard => app_name = LblCustomCard

\* C10 witness: the dot rule passed over a 'z' segment of exactly 3
\* characters and returned the last segment outside the stoplist.
C10_Witness ==
    /\ pc = "returned"
    /\ DotCase(PreHash(viz_id))
    /\ \E k \in 1..Len(DotSegments(PreHash(viz_id))) :
          DotSegments(PreHash(viz_id))[k] = <<"z", "a", "b">>
    /\ \E k \in 1..Len(DotSegments(PreHash(viz_id))) :
          Stoplisted(DotSegments(PreHash(viz_id))[k])
    /\ app_name = <<"z", "a", "b">>

\* ------------------------------------------------------------------------
\* Properties of analyze_workzone_export (checked under Spec)
\* ------------------------------------------------------------------------

\* The records of a collection of the loaded data, none when it is absent.
Records(key) == IF key \in DOMAIN data THEN data[key] ELSE <<>>

Indices(xs) == 1..Len(xs)

\* p occurs in s as a substring.
Occurs(p, s) ==
    \E k \in 0..(Len(s) - Len(p)) : \A i \in 1..Len(p) : s[k + i] = p[i]

\* C2 (as stated): every page id of a space-to-page relation has a page node
\* in the output; when no workpage record has that id, the node's title is the
\* page id and its app list is empty.
C2_ReferencedPagesAppear ==
    pc = "done" =>
        \A r \in Indices(Records("space_workpage_relations")) :
            LET page_id == Records("space_workpage_relations")[r].workPageId
            IN  \E n \in Indices(overview.pages) :
                    /\ overview.pages[n].id = page_id
                    /\ (\A w \in Indices(Records("workpages")) :
                            Records("workpages")[w].id # page_id)
                       => /\ overview.pages[n].title = page_id
                          /\ overview.pages[n].apps = <<>>

\* C3 (as stated): a role's related_visualizations holds each visualization
\* id at most once.
C3_RoleVisualizationsUnique ==
    pc = "done" =>
        \A r \in Indices(overview.roles) :
            LET vs == overview.roles[r].related_visualizations
            IN  \A i, j \in Indices(vs) : vs[i].viz_id = vs[j].viz_id => i = j

\* The master-language space records and the en-language workpage records.
MasterSpaces == {i \in Indices(Records("spaces")) : Records("spaces")[i].language = "master"}
EnPages == {i \in Indices(Records("workpages")) : Records("workpages")[i].language = "en"}

\* xs without the records whose language is not lang.
RECURSIVE OnlyLanguage(_, _)
OnlyLanguage(xs, lang) ==
    IF xs = <<>> THEN <<>>
    ELSE (IF Head(xs).language = lang THEN <<Head(xs)>> ELSE <<>>)
         \o OnlyLanguage(Tail(xs), lang)

\* The loaded data without its records of another language.
CanonicalData ==
    [k \in DOMAIN data |->
        IF k = "spaces" THEN OnlyLanguage(data[k], "master")
        ELSE IF k = "workpages" THEN OnlyLanguage(data[k], "en")
        ELSE data[k]]

\* C4: every space node comes from a master-language space record and every
\* page node from an en-language workpage record; every entry of a page's
\* space list is the title of a master-language record related to the page,
\* every related page / visualization of a role comes from an en-language
\* record; and the records of any other language change nothing in the output.
C4_OnlyCanonicalLanguage ==
    pc = "done" =>
        /\ Len(overview.spaces) = Cardinality(MasterSpaces)
        /\ \A n \in Indices(overview.spaces) : \E i \in MasterSpaces :
              /\ Records("spaces")[i].id = overview.spaces[n].id
              /\ Records("spaces")[i].title = overview.spaces[n].title
        /\ Len(overview.pages) = Cardinality(EnPages)
        /\ \A n \in Indices(overview.pages) :
              /\ \E i \in EnPages :
                    /\ Records("workpages")[i].id = overview.pages[n].id
                    /\ Records("workpages")[i].title = overview.pages[n].title
              /\ \A t \in Indices(overview.pages[n].spaces) :
                    \E i \in MasterSpaces, r \in Indices(Records("space_workpage_relations")) :
                        /\ Records("spaces")[i].title = overview.pages[n].spaces[t]
                        /\ Records("space_workpage_relations")[r].spaceId = Records("spaces")[i].id
                        /\ Records("space_workpage_relations")[r].workPageId = overview.pages[n].id
        /\ \A r \in Indices(overview.roles) :
              /\ \A t \in Indices(overview.roles[r].related_pages) : \E i \in EnPages :
                    Records("workpages")[i].title = overview.roles[r].related_pages[t]
              /\ \A v \in Indices(overview.roles[r].related_visualizations) : \E i \in EnPages :
                    /\ Records("workpages")[i].title =
                          overview.roles[r].related_visualizations[v].page
                    /\ \E z \in Indices(Records("workpages")[i].workPageVizsId) :
                          Records("workpages")[i].workPageVizsId[z] =
                              overview.roles[r].related_visualizations[v].viz_id
        /\ overview = analyze_workzone_export(CanonicalData)

\* C4 witness: an export with a space record and a workpage record of another
\* language was analyzed, and the output has a space node and a page node.
C4_Witness ==
    /\ pc = "done"
    /\ \E i \in Indices(Records("spaces")) : i \notin MasterSpaces
    /\ \E i \in Indices(Records("workpages")) : i \notin EnPages
    /\ overview.spaces # <<>>
    /\ overview.pages # <<>>

\* The role record has a provider id that occurs in a visualization id of an
\* en-language workpage.
HasMatch(role) ==
    /\ role.providerId # None
    /\ role.providerId # <<>>
    /\ \E i \in EnPages : \E z \in Indices(Records("workpages")[i].workPageVizsId) :
          Occurs(role.providerId, Records("workpages")[i].workPageVizsId[z])

\* C7: the analysis never raises; every role record is emitted; a role without
\* a provider-id match on an en-language page (a missing or empty providerId
\* included) has empty related page and visualization lists and the "nothing
\* found" note, and the "found" note goes only with a role that has a match.
C7_NothingFound ==
    /\ pc # "raised"
    /\ pc = "done" =>
          /\ Len(overview.roles) = Len(Records("roles"))
          /\ \A r \in Indices(overview.roles) :
                /\ overview.roles[r].id = Records("roles")[r].id
                /\ ~HasMatch(Records("roles")[r]) =>
                      /\ overview.roles[r].related_pages = <<>>
                      /\ overview.roles[r].related_visualizations = <<>>
                      /\ overview.roles[r].note = <<NoteNone>>
                /\ overview.roles[r].note[1] = NoteFound => HasMatch(Records("roles")[r])

\* C7 witness: a role with an empty providerId was emitted with the "nothing
\* found" note although an en-language page carries a visualization.
C7_Witness ==
    /\ pc = "done"
    /\ \E r \in Indices(Records("roles")) :
          /\ Records("roles")[r].providerId = <<>>
          /\ overview.roles[r].note = <<NoteNone>>
    /\ \E i \in EnPages : Records("workpages")[i].workPageVizsId # <<>>

\* The loaded data with an empty list for every list collection it lacks.
FilledData ==
    [k \in DOMAIN data \cup (DataKeys \ {"export_metadata"}) |->
        IF k \in DOMAIN data THEN data[k] ELSE <<>>]

\* C8: whatever collections are absent from the loaded data, the analysis
\* runs to completion and returns an overview with statistics; an absent
\* collection contributes nothing, and the output is the one the present
\* collections give with empty lists in the place of the absent ones.
C8_AbsentCollections ==
    /\ pc # "raised"
    /\ pc \in {"loaded", "done"} =>
          DOMAIN data = {k \in DataKeys : FileOf(k) \in DOMAIN fs}
    /\ pc = "done" =>
          /\ overview.statistics.total_spaces = Len(overview.spaces)
          /\ overview.statistics.total_pages = Len(overview.pages)
          /\ overview.statistics.total_apps = Len(overview.apps)
          /\ overview.statistics.total_roles = Len(overview.roles)
          /\ "export_metadata" \notin DOMAIN data => overview.export_info = <<>>
          /\ "spaces" \notin DOMAIN data =>
                /\ overview.spaces = <<>>
                /\ \A n \in Indices(overview.pages) : overview.pages[n].spaces = <<>>
          /\ "space_workpage_relations" \notin DOMAIN data =>
                /\ \A n \in Indices(overview.pages) : overview.pages[n].spaces = <<>>
                /\ \A a \in Indices(overview.apps) : overview.apps[a].spaces = <<>>
          /\ "workpages" \notin DOMAIN data =>
                /\ overview.pages = <<>>
                /\ overview.statistics.total_visualizations = 0
                /\ \A a \in Indices(overview.apps) : overview.apps[a].pages = <<>>
                /\ \A r \in Indices(overview.roles) :
                      /\ overview.roles[r].related_pages = <<>>
                      /\ overview.roles[r].related_visualizations = <<>>
          /\ "business_apps" \notin DOMAIN data => overview.apps = <<>>
          /\ "roles" \notin DOMAIN data => overview.roles = <<>>
          /\ overview = analyze_workzone_export(FilledData)

\* C8 witness: an export without the spaces file, but with relations and an
\* en-language workpage, was analyzed and gave a page node.
C8_Witness ==
    /\ pc = "done"
    /\ "spaces" \notin DOMAIN data
    /\ Records("space_workpage_relations") # <<>>
    /\ overview.pages # <<>>
    /\ overview.statistics.total_pages = Len(overview.pages)

\* C9 (as stated): within one page's app list no two entries share the part
\* of the visualization id before '#'; the per-page app count and
\* total_visualizations count these lists.
C9_PageAppsUnique ==
    pc = "done" =>
        /\ \A n \in Indices(overview.pages) :
              LET apps == overview.pages[n].apps
              IN  \A i, j \in Indices(apps) :
                      PreHash(apps[i].viz_id) = PreHash(apps[j].viz_id) => i = j
        /\ overview.statistics.total_visualizations =
              Cardinality(UNION { {<<n, i>> : i \in Indices(overview.pages[n].apps)} :
                                  n \in Indices(overview.pages) })

====
